---- MODULE Spec2Model ----
(***************************************************************************)
(* A model of bot.py: the JSON-backed stores of the picture bot (image     *)
(* metadata with its hash index, the pick of the day, the per-user usage   *)
(* ledger), the atomic save they share, and the command handlers that use  *)
(* them.                                                                   *)
(***************************************************************************)
EXTENDS Integers, Sequences, FiniteSets, TLC

VARIABLES
    today,      \* the UTC day the clock shows, as a day number
    dir_form,   \* whether IMAGES_DIR is a relative or an absolute path
    files,      \* the names of the media files present under IMAGES_DIR
    disk,       \* the content of each JSON file and of its .tmp sibling
    ret,        \* the last store call or handler step: its arguments and result
    saving,     \* the save in progress, when saves are followed write by write
    picked,     \* the path returned by the call that wrote today's pick
    registered, \* per content hash, the path of the last successful set_meta that supplied it
    inflight,   \* per user and date key, the images /random is still sending
    served,     \* per user and date key, the images /random has delivered
    content,    \* per media file present, the hash of its bytes
    ADMIN_CURRENT, \* per admin, the image that admin selected last
    cfg_idx,    \* cfg_next.idx, the round-robin position
    drawn,      \* per user and date key, the draws /random has counted
    shown,      \* per user, the image cfg_next or cfg_select presented to them last
    SYNCED,     \* whether the commands have been synced
    running,    \* the background loops that are running
    ready       \* per on_ready invocation, in order of arrival, where it stands

vars == <<today, dir_form, files, disk, ret, saving, picked, registered, inflight, served,
          content, ADMIN_CURRENT, cfg_idx, drawn, shown, SYNCED, running, ready>>

----------------------------------------------------------------------------
(* Configuration and small sets the inputs are drawn from. *)

DAILY_DB == "daily.json"
IMAGES_DB == "images_db.json"
USAGE_DB == "usage.json"

MAX_DAILY_RANDOM == 3
RARITIES == <<"Common", "Uncommon", "Rare", "Mythical", "Exquisite">>
KEEP_DAYS == 7

\* The last day number the clock reaches.
MaxDay == 9
\* How many replies with an image may await their send at once.
MaxInflight == 2

Names == {"a.jpg", "b.jpg"}
Users == {101, 102}
Hashes == {"h1", "h2"}
\* Rarity arguments a caller may pass: the valid ones and one that is not.
RarityArgs == {"Rare", "Legendary"}

\* An optional argument: None, or Some(v).
None == <<>>
Some(v) == <<v>>

EmptyMap == [k \in {} |-> k]
Put(m, k, v) == [x \in DOMAIN m \cup {k} |-> IF x = k THEN v ELSE m[x]]
Restrict(m, ks) == [x \in ks |-> m[x]]
Get(m, k, default) == IF k \in DOMAIN m THEN m[k] ELSE default
SeqRange(s) == {s[i] : i \in DOMAIN s}

----------------------------------------------------------------------------
(* Dates.  today_key formats the UTC date as YYYY-MM-DD; the key is kept   *)
(* as the triple of its fields, and keys are ordered as the strings are:   *)
(* field by field from the left.  The day numbers span a year's end.       *)

today_key(day) ==
    IF day <= 4 THEN <<2024, 12, 27 + day>> ELSE <<2025, 1, day - 4>>

LexLess(a, b) ==
    \/ a[1] < b[1]
    \/ a[1] = b[1] /\ a[2] < b[2]
    \/ a[1] = b[1] /\ a[2] = b[2] /\ a[3] < b[3]

----------------------------------------------------------------------------
(* Paths.  A path is <<form, name>>: the file `name` under IMAGES_DIR,     *)
(* written relative to the working directory or absolute.                  *)

ListPath(form, n) == <<form, n>>
resolve(p) == <<"abs", p[2]>>
exists(fs, p) == p[2] \in fs
ListPaths(form) == {ListPath(form, n) : n \in Names}

list_all_images(fs, form) == {ListPath(form, n) : n \in fs}

----------------------------------------------------------------------------
(* The JSON files.  A file is absent, empty (opened for writing, nothing   *)
(* written), partial (a strict prefix of the text of obj) or full (the     *)
(* whole text of obj).  Only a full text parses.                           *)

Absent == [kind |-> "absent"]
Empty == [kind |-> "empty"]
Partial(obj) == [kind |-> "partial", obj |-> obj]
Full(obj) == [kind |-> "full", obj |-> obj]

\* Mutant: no sibling, the text is written under the real name.
with_suffix_same(path) == path

with_suffix_tmp(path) ==
    CASE path = DAILY_DB -> "daily.tmp"
      [] path = IMAGES_DB -> "images_db.tmp"
      [] path = USAGE_DB -> "usage.tmp"

RealPaths == {DAILY_DB, IMAGES_DB, USAGE_DB}
DiskPaths == RealPaths \cup {with_suffix_tmp(p) : p \in RealPaths}

\* Mutant: a truncated text is read as if it were the whole document.
_load_json_truncated(d, path, default) ==
    IF d[path].kind \in {"full", "partial"} THEN d[path].obj ELSE default

_load_json(d, path, default) ==
    IF d[path].kind = "full" THEN d[path].obj ELSE default

load_daily_db(d) ==
    IF d[DAILY_DB].kind = "full" THEN d[DAILY_DB].obj ELSE EmptyMap

\* tmp.write_text opens the .tmp sibling, which truncates it, ...
save_open(d, path) == [d EXCEPT ![with_suffix_tmp(path)] = Empty]

\* ... then writes the text of obj: all of it, or only a part so far.
save_write(d, path, obj, whole) ==
    [d EXCEPT ![with_suffix_tmp(path)] = IF whole THEN Full(obj) ELSE Partial(obj)]

\* tmp.replace(path): the rename puts the .tmp file under the real name (a
\* rename of a file onto itself changes nothing).
save_replace(d, path) ==
    IF with_suffix_tmp(path) = path THEN d
    ELSE [d EXCEPT ![path] = d[with_suffix_tmp(path)], ![with_suffix_tmp(path)] = Absent]

\* Mutant: the save is lost, the file stays as it was.
_save_json_lost(d, path, obj) == d

\* A save that runs to its end.
_save_json(d, path, obj) ==
    save_replace(save_write(save_open(d, path), path, obj, TRUE), path)

save_daily_db(d, db) ==
    save_replace(save_write(save_open(d, DAILY_DB), DAILY_DB, db, TRUE), DAILY_DB)

----------------------------------------------------------------------------
(* Image metadata. *)

DefaultRec == [rarity |-> "Common", blacklisted |-> FALSE]

_images_db(d) ==
    _load_json(d, IMAGES_DB, [images |-> EmptyMap, hashes |-> EmptyMap])

\* Mutant: the default record is returned but not persisted.
get_meta_no_persist(d, p) ==
    [rec |-> Get(_images_db(d).images, resolve(p), DefaultRec), disk |-> d]

\* get_meta: [rec |-> the record returned, disk |-> the disk afterwards].
get_meta(d, p) ==
    LET db == _images_db(d)
        key == resolve(p)
    IN IF key \in DOMAIN db.images
       THEN [rec |-> db.images[key], disk |-> d]
       ELSE [rec |-> DefaultRec,
             disk |-> _save_json(d, IMAGES_DB,
                                 [db EXCEPT !.images = Put(db.images, key, DefaultRec)])]

\* Mutant: the rarity is never refused.
valid_rarity_any(r) == TRUE

valid_rarity(r) == r \in SeqRange(RARITIES)

\* Mutant: the call starts from the defaults, forgetting the stored record.
prior_record_reset(images, key) == DefaultRec

\* The record of `key` before the call, or the defaults when there is none.
prior_record(images, key) == Get(images, key, DefaultRec)

\* Mutant: the first path registered under a hash keeps it.
index_hash_keep_first(hashes, sha, key) ==
    IF sha \in DOMAIN hashes THEN hashes ELSE Put(hashes, sha, key)

index_hash(hashes, sha, key) == Put(hashes, sha, key)

\* set_meta: [err, rec, disk]; err is "ValueError" when the rarity is refused.
set_meta(d, p, rarity, blacklisted, sha256) ==
    LET db == _images_db(d)
        key == resolve(p)
        rec0 == prior_record(db.images, key)
        rec1 == IF rarity # None THEN [rec0 EXCEPT !.rarity = rarity[1]] ELSE rec0
        rec2 == IF blacklisted # None
                THEN [rec1 EXCEPT !.blacklisted = blacklisted[1]] ELSE rec1
        rec3 == IF sha256 # None THEN Put(rec2, "sha256", sha256[1]) ELSE rec2
        hashes1 == IF sha256 # None THEN index_hash(db.hashes, sha256[1], key)
                   ELSE db.hashes
    IN IF rarity # None /\ ~valid_rarity(rarity[1])
       THEN [err |-> "ValueError", rec |-> rec0, disk |-> d]
       ELSE [err |-> "", rec |-> rec3,
             disk |-> _save_json(d, IMAGES_DB,
                                 [images |-> Put(db.images, key, rec3), hashes |-> hashes1])]

\* The reverse lookup cfg_upload makes for its duplicate check.
find_by_hash(d, sha) == Get(_images_db(d).hashes, sha, None)

\* Mutant: a blacklisted file stays in the pool.
eligible_if_exists(recs, fs, p) == exists(fs, p)

\* The two tests of the loop: the file exists and its record is not blacklisted.
eligible(recs, fs, p) == exists(fs, p) /\ ~recs[resolve(p)].blacklisted

\* list_pool_images: get_meta on every listed file (each call may persist a
\* default record), keeping the files whose record is not blacklisted.
\* [pool, disk].
list_pool_images(d, fs, form) ==
    LET db == _images_db(d)
        all == list_all_images(fs, form)
        recs == [k \in DOMAIN db.images \cup {resolve(p) : p \in all} |->
                    Get(db.images, k, DefaultRec)]
    IN [pool |-> {p \in all : eligible(recs, fs, p)},
        disk |-> IF DOMAIN recs = DOMAIN db.images THEN d
                 ELSE _save_json(d, IMAGES_DB, [db EXCEPT !.images = recs])]

----------------------------------------------------------------------------
(* The usage ledger. *)

_usage_db(d) == _load_json(d, USAGE_DB, EmptyMap)

\* Mutant: the count is read under the latest date of the ledger, not today's.
get_user_uses_latest(d, user, day) ==
    LET db == _load_json(d, USAGE_DB, EmptyMap)
    IN IF DOMAIN db = {} THEN 0
       ELSE Get(db[CHOOSE k \in DOMAIN db : \A j \in DOMAIN db : ~LexLess(k, j)], user, 0)

get_user_uses(d, user, day) ==
    Get(Get(_usage_db(d), today_key(day), EmptyMap), user, 0)

\* Mutant: the first 7 keys in sorted order are kept, not the last 7.
kept_keys_oldest(keys) ==
    IF Cardinality(keys) > KEEP_DAYS
    THEN {k \in keys : Cardinality({j \in keys : LexLess(j, k)}) < KEEP_DAYS}
    ELSE keys

\* sorted(db.keys())[:-7] is dropped: what stays is every key with fewer than
\* 7 keys above it.
kept_keys(keys) ==
    IF Cardinality(keys) > KEEP_DAYS
    THEN {k \in keys : Cardinality({j \in keys : LexLess(k, j)}) < KEEP_DAYS}
    ELSE keys

\* Mutant: the count is stored and returned without the increment.
new_count_stale(daymap, user) == Get(daymap, user, 0)

new_count(daymap, user) == Get(daymap, user, 0) + 1

\* inc_user_uses: [val, disk].
inc_user_uses(d, user, day) ==
    LET db == _usage_db(d)
        key == today_key(day)
        daymap == Get(db, key, EmptyMap)
        n == new_count(daymap, user)
        db1 == Put(db, key, Put(daymap, user, n))
    IN [val |-> n,
        disk |-> _save_json(d, USAGE_DB, Restrict(db1, kept_keys(DOMAIN db1)))]

\* Mutant: the quota test lets one draw too many through.
quota_reached_late(used) == used > MAX_DAILY_RANDOM

\* random_cmd's test of the count it read against the quota.
quota_reached(used) == used >= MAX_DAILY_RANDOM

----------------------------------------------------------------------------
(* The pick of the day. *)

\* What pick_or_get_today returns when today's entry is still good.
cached_path(p) == p

\* Mutant: an entry is reused whenever its file exists, blacklisted or not.
still_good_unless_missing(d, fs, p) == exists(fs, p)

\* The test on today's entry: its file exists and its record is not blacklisted.
still_good(d, fs, p) == exists(fs, p) /\ ~get_meta(d, p).rec.blacklisted

\* Mutant: the document is started afresh with today's pick alone.
record_pick_alone(db, key, path) == [k \in {key} |-> path]

\* db[key] = str(choice.resolve()).
record_pick(db, key, path) == Put(db, key, path)

\* Mutant: an empty pool given by the caller is taken as it is.
pool_as_given(images, listing) == images

\* images or list_pool_images(): an empty or missing pool is replaced by the
\* current listing of eligible files.
pool_or_listing(images, listing) == IF images # {} THEN images ELSE listing

\* pick_or_get_today: the set of possible outcomes [err, val, disk], one per
\* choice the random source can make (cached: today's entry was returned, no
\* choice made).  `images` is the caller's pool.
pick_or_get_today(d, fs, form, day, images) ==
    LET lp == list_pool_images(d, fs, form)
        imgs == pool_or_listing(images, lp.pool)
        d1 == IF images # {} THEN d ELSE lp.disk
        db == load_daily_db(d1)
        key == today_key(day)
        p == Get(db, key, None)
        looked == p # None /\ exists(fs, p)
        d2 == IF looked THEN get_meta(d1, p).disk ELSE d1
    IN IF imgs = {}
       THEN {[err |-> "RuntimeError", val |-> None, cached |-> FALSE, disk |-> d1]}
       ELSE IF p # None /\ still_good(d1, fs, p)
       THEN {[err |-> "", val |-> cached_path(p), cached |-> TRUE, disk |-> d2]}
       ELSE {[err |-> "", val |-> choice, cached |-> FALSE,
              disk |-> save_daily_db(d2, record_pick(db, key, resolve(choice)))]
             : choice \in imgs}

----------------------------------------------------------------------------
(* Initial states. *)

AllAbsent == [p \in DiskPaths |-> Absent]
NoSave == [pc |-> "idle", path |-> "", obj |-> EmptyMap, prev |-> Absent]
NoPick == [day |-> 0, val |-> None, intact |-> FALSE]
\* Media files whose bytes all hash alike (what they hold plays no part).
SameBytes(fs) == [n \in fs |-> "h1"]
FirstDay == MaxDay - 1

\* The process has started and has served nothing yet.
InitProcess ==
    /\ today = FirstDay
    /\ dir_form \in {"rel", "abs"}
    /\ ret = [op |-> "start"]
    /\ saving = NoSave
    /\ picked = NoPick
    /\ registered = EmptyMap
    /\ inflight = EmptyMap
    /\ served = EmptyMap
    /\ ADMIN_CURRENT = EmptyMap
    /\ cfg_idx = 0
    /\ drawn = EmptyMap
    /\ shown = EmptyMap
    /\ SYNCED = FALSE
    /\ running = {}
    /\ ready = <<>>

\* A fresh installation: the media directory populated, no JSON file yet.
InitMeta ==
    InitProcess /\ files = Names /\ content = SameBytes(files) /\ disk = AllAbsent

----------------------------------------------------------------------------
(* The metadata store, called directly. *)

GetMeta(p) ==
    LET r == get_meta(disk, p)
    IN /\ disk' = r.disk
       /\ ret' = [op |-> "get_meta", p |-> p, rec |-> r.rec]
       /\ UNCHANGED <<today, dir_form, files, saving, picked, registered, inflight, served>>
       /\ UNCHANGED <<content, ADMIN_CURRENT, cfg_idx, drawn, shown>>
       /\ UNCHANGED <<SYNCED, running, ready>>

SetMeta(p, rarity, blacklisted, sha256) ==
    LET r == set_meta(disk, p, rarity, blacklisted, sha256)
    IN /\ disk' = r.disk
       /\ ret' = [op |-> "set_meta", p |-> p, rarity |-> rarity,
                  blacklisted |-> blacklisted, sha256 |-> sha256, err |-> r.err,
                  rec |-> r.rec]
       /\ registered' = IF r.err = "" /\ sha256 # None
                        THEN Put(registered, sha256[1], resolve(p)) ELSE registered
       /\ picked' = IF r.err = "" /\ blacklisted = Some(TRUE) /\ picked.val # None
                          /\ resolve(picked.val) = resolve(p)
                    THEN [picked EXCEPT !.intact = FALSE] ELSE picked
       /\ UNCHANGED <<today, dir_form, files, saving, inflight, served>>
       /\ UNCHANGED <<content, ADMIN_CURRENT, cfg_idx, drawn, shown>>
       /\ UNCHANGED <<SYNCED, running, ready>>

Opt(S) == {None} \cup {Some(v) : v \in S}

NextMeta ==
    \/ \E p \in ListPaths(dir_form) : GetMeta(p)
    \/ \E p \in ListPaths(dir_form), rarity \in Opt(RarityArgs),
          blacklisted \in Opt(BOOLEAN), sha256 \in Opt(Hashes) :
            SetMeta(p, rarity, blacklisted, sha256)

SpecMeta == InitMeta /\ [][NextMeta]_vars

----------------------------------------------------------------------------
(* Claims about the metadata store (SpecMeta). *)

ImagesOf(d) == _images_db(d).images
HashesOf(d) == _images_db(d).hashes
HasSha(rec) == "sha256" \in DOMAIN rec
ShaOf(rec) == IF HasSha(rec) THEN Some(rec.sha256) ELSE None

\* C6: set_meta with a rarity outside RARITIES fails with ValueError and
\* writes nothing: every JSON file is the same before and after, whatever
\* blacklisted and sha256 arguments came with it.
C6_InvalidRarityWritesNothing ==
    [][(ret'.op = "set_meta" /\ ret'.rarity # None
          /\ ret'.rarity[1] \notin SeqRange(RARITIES))
       => (ret'.err = "ValueError" /\ disk' = disk)]_vars

C6_Witness ==
    /\ ret.op = "set_meta"
    /\ ret.err = "ValueError"
    /\ ret.blacklisted = Some(TRUE)
    /\ ret.sha256 # None
    /\ resolve(ret.p) \in DOMAIN ImagesOf(disk)
    /\ ~ImagesOf(disk)[resolve(ret.p)].blacklisted
    /\ HashesOf(disk) # EmptyMap

\* C7: the hash index maps each content hash to the path of the last
\* successful set_meta that supplied it (none when there was no such call),
\* and a set_meta that supplies a hash already registered under another path
\* succeeds and takes the hash over.
C7_HashIndexLastWriterWins ==
    /\ [](\A h \in Hashes : find_by_hash(disk, h) = Get(registered, h, None))
    /\ [][(ret'.op = "set_meta" /\ ret'.sha256 # None
             /\ (ret'.rarity = None \/ ret'.rarity[1] \in SeqRange(RARITIES)))
          => (ret'.err = "" /\ find_by_hash(disk', ret'.sha256[1]) = resolve(ret'.p))]_vars

C7_Witness ==
    \E h \in Hashes :
        /\ find_by_hash(disk, h) = <<"abs", "b.jpg">>
        /\ <<"abs", "a.jpg">> \in DOMAIN ImagesOf(disk)
        /\ ShaOf(ImagesOf(disk)[<<"abs", "a.jpg">>]) = Some(h)
        /\ ret.op = "set_meta" /\ ret.err = "" /\ ret.sha256 = Some(h)

\* C9: a successful set_meta(p, ...) sets the supplied fields of p's record,
\* keeps its other fields (the defaults when p had no record), leaves every
\* other record as it was, and changes the hash index at the supplied hash
\* only.
C9_SetMetaFrame ==
    [][(ret'.op = "set_meta" /\ ret'.err = "")
       => LET key == resolve(ret'.p)
              old == Get(ImagesOf(disk), key, DefaultRec)
              new == ImagesOf(disk')[key]
          IN /\ key \in DOMAIN ImagesOf(disk')
             /\ new.rarity = IF ret'.rarity # None THEN ret'.rarity[1] ELSE old.rarity
             /\ new.blacklisted = IF ret'.blacklisted # None THEN ret'.blacklisted[1]
                                  ELSE old.blacklisted
             /\ ShaOf(new) = IF ret'.sha256 # None THEN ret'.sha256 ELSE ShaOf(old)
             /\ DOMAIN new \subseteq {"rarity", "blacklisted", "sha256"}
             /\ ret'.rec = new
             /\ DOMAIN ImagesOf(disk') = DOMAIN ImagesOf(disk) \cup {key}
             /\ \A k \in DOMAIN ImagesOf(disk) \ {key} : ImagesOf(disk')[k] = ImagesOf(disk)[k]
             /\ \A h \in Hashes :
                    ret'.sha256 # Some(h) => find_by_hash(disk', h) = find_by_hash(disk, h)
             /\ ret'.sha256 # None => find_by_hash(disk', ret'.sha256[1]) = key]_vars

C9_Witness ==
    /\ ret.op = "set_meta" /\ ret.err = ""
    /\ ret.rarity = None /\ ret.blacklisted = Some(TRUE) /\ ret.sha256 = None
    /\ ret.rec.rarity = "Rare" /\ HasSha(ret.rec)
    /\ Cardinality(DOMAIN ImagesOf(disk)) = 2

\* C10: get_meta on a path with no record returns the default record and
\* persists it under that path, changing nothing else; get_meta on a path
\* with a record returns that record and leaves every file as it was.
C10_GetMetaLazyDefault ==
    [][ret'.op = "get_meta"
       => LET key == resolve(ret'.p)
          IN IF key \in DOMAIN ImagesOf(disk)
             THEN ret'.rec = ImagesOf(disk)[key] /\ disk' = disk
             ELSE /\ ret'.rec = [rarity |-> "Common", blacklisted |-> FALSE]
                  /\ disk'[IMAGES_DB].kind = "full"
                  /\ ImagesOf(disk') = Put(ImagesOf(disk), key, ret'.rec)
                  /\ HashesOf(disk') = HashesOf(disk)
                  /\ \A f \in RealPaths \ {IMAGES_DB} : disk'[f] = disk[f]]_vars

C10_Witness ==
    /\ ret.op = "get_meta"
    /\ ret.rec = DefaultRec
    /\ ImagesOf(disk) = [k \in {resolve(ret.p), <<"abs", "b.jpg">>} |->
                            IF k = resolve(ret.p) THEN DefaultRec
                            ELSE [rarity |-> "Rare", blacklisted |-> TRUE, sha256 |-> "h1"]]
    /\ ret.p[2] = "a.jpg"

\* C11: starting from an empty metadata document, after any sequence of
\* get_meta and set_meta calls, failed ones included, every record of the
\* metadata index has a rarity that is one of Common, Uncommon, Rare,
\* Mythical, Exquisite and a boolean blacklisted field.
C11_RecordsWellFormed ==
    \A k \in DOMAIN ImagesOf(disk) :
        /\ {"rarity", "blacklisted"} \subseteq DOMAIN ImagesOf(disk)[k]
        /\ ImagesOf(disk)[k].rarity
             \in {"Common", "Uncommon", "Rare", "Mythical", "Exquisite"}
        /\ ImagesOf(disk)[k].blacklisted \in BOOLEAN

C11_Witness ==
    /\ ret.op = "set_meta" /\ ret.err = "ValueError"
    /\ resolve(ret.p) \in DOMAIN ImagesOf(disk)
    /\ ImagesOf(disk)[resolve(ret.p)].rarity = "Rare"
    /\ \E k \in DOMAIN ImagesOf(disk) :
          k # resolve(ret.p) /\ ImagesOf(disk)[k] = DefaultRec

----------------------------------------------------------------------------
(* The usage ledger, called directly.  The ledger found at the start is    *)
(* one that earlier days' increments leave behind: at most KEEP_DAYS keys, *)
(* all of days before the first day, each with positive counts.            *)

SeedDay(day) ==
    [u \in IF day % 2 = 0 THEN Users ELSE {CHOOSE u \in Users : TRUE} |->
        1 + (day % MAX_DAILY_RANDOM)]

LedgerOf(S) ==
    [k \in {today_key(dd) : dd \in S} |-> SeedDay(CHOOSE dd \in S : today_key(dd) = k)]

InitUsage ==
    /\ InitProcess
    /\ dir_form = "rel"
    /\ files = Names
    /\ content = SameBytes(files)
    /\ \E S \in SUBSET (1 .. FirstDay - 1) :
          /\ Cardinality(S) <= KEEP_DAYS
          /\ disk = [AllAbsent EXCEPT
                       ![USAGE_DB] = IF S = {} THEN Absent ELSE Full(LedgerOf(S))]

GetUserUses(u) ==
    /\ ret' = [op |-> "get_user_uses", user |-> u, day |-> today,
               val |-> get_user_uses(disk, u, today)]
    /\ UNCHANGED <<today, dir_form, files, disk, saving, picked, registered, inflight, served>>
    /\ UNCHANGED <<content, ADMIN_CURRENT, cfg_idx, drawn, shown>>
    /\ UNCHANGED <<SYNCED, running, ready>>

\* inc_user_uses as random_cmd calls it: below the daily quota.
IncUserUses(u) ==
    /\ ~quota_reached(get_user_uses(disk, u, today))
    /\ LET r == inc_user_uses(disk, u, today)
       IN /\ disk' = r.disk
          /\ ret' = [op |-> "inc_user_uses", user |-> u, day |-> today, val |-> r.val,
                     keys_before |-> DOMAIN _usage_db(disk)]
    /\ UNCHANGED <<today, dir_form, files, saving, picked, registered, inflight, served>>
    /\ UNCHANGED <<content, ADMIN_CURRENT, cfg_idx, drawn, shown>>
    /\ UNCHANGED <<SYNCED, running, ready>>

\* Midnight UTC passes.
Tick ==
    /\ today < MaxDay
    /\ today' = today + 1
    /\ ret' = [op |-> "tick"]
    /\ UNCHANGED <<dir_form, files, disk, saving, picked, registered, inflight, served>>
    /\ UNCHANGED <<content, ADMIN_CURRENT, cfg_idx, drawn, shown>>
    /\ UNCHANGED <<SYNCED, running, ready>>

NextUsage ==
    \/ \E u \in Users : GetUserUses(u)
    \/ \E u \in Users : IncUserUses(u)
    \/ Tick

SpecUsage == InitUsage /\ [][NextUsage]_vars

\* C3: inc_user_uses returns get_user_uses(user) + 1 as read just before
\* the call, and get_user_uses(user) read just after, on the same date,
\* equals the value returned; a user with no count today gets 1, and
\* consecutive increments of one user on one date return consecutive values.
C3_IncReturnsNextCount ==
    [][ret'.op = "inc_user_uses"
       => /\ ret'.val = get_user_uses(disk, ret'.user, today) + 1
          /\ today' = today
          /\ get_user_uses(disk', ret'.user, today') = ret'.val
          /\ (ret'.user \notin DOMAIN Get(_usage_db(disk), today_key(today), EmptyMap)
                => ret'.val = 1)
          /\ (ret.op = "inc_user_uses" /\ ret.user = ret'.user /\ ret.day = ret'.day
                => ret'.val = ret.val + 1)]_vars

C3_Witness ==
    /\ ret.op = "inc_user_uses"
    /\ ret.val = 3
    /\ get_user_uses(disk, ret.user, today) = 3
    /\ Cardinality(ret.keys_before) = KEEP_DAYS
    /\ \E u \in Users \ {ret.user} : get_user_uses(disk, u, today) = 1

Min(a, b) == IF a < b THEN a ELSE b

\* C4: after every inc_user_uses the ledger holds at most 7 date keys: the
\* 7 greatest, in the order of the key strings, of the keys present once the
\* increment is applied (all of them when they are 7 or fewer); and the
\* counts under the keys kept are those the increment left.
C4_LedgerKeepsSevenLatest ==
    [][ret'.op = "inc_user_uses"
       => LET before == _usage_db(disk)
              after == _usage_db(disk')
              key == today_key(today)
              applied == DOMAIN before \cup {key}
          IN /\ Cardinality(DOMAIN after) <= 7
             /\ Cardinality(DOMAIN after) = Min(7, Cardinality(applied))
             /\ DOMAIN after \subseteq applied
             /\ \A k \in applied \ DOMAIN after : \A j \in DOMAIN after : LexLess(k, j)
             /\ \A k \in DOMAIN after :
                    after[k] = IF k = key
                               THEN Put(Get(before, key, EmptyMap), ret'.user, ret'.val)
                               ELSE before[k]]_vars

\* The count the ledger holds for a user under a date key, 0 when none.
Stored(d, k, u) == Get(Get(_usage_db(d), k, EmptyMap), u, 0)

AllKeys == {today_key(day) : day \in 1 .. MaxDay}

\* The first read of a user's count after midnight UTC returns 0.
FreshDayReadsZero ==
    [][(ret.op = "tick" /\ ret'.op = "get_user_uses") => ret'.val = 0]_vars

\* C16 as stated: the first read on a new UTC date returns 0 for every user,
\* and an increment changes the count stored for no other date and no other
\* user.
C16_ResetAndNoOtherChange ==
    /\ FreshDayReadsZero
    /\ [][ret'.op = "inc_user_uses"
          => \A k \in AllKeys, u \in Users :
                (k # today_key(today) \/ u # ret'.user)
                  => Stored(disk', k, u) = Stored(disk, k, u)]_vars

\* C16 amended: the increment changes no other user's count for the date
\* and no count of any other date among the 7 latest date keys; the dates
\* before those are dropped from the ledger, counts included.
C16_ResetAndNoOtherChangeInWindow ==
    /\ FreshDayReadsZero
    /\ [][ret'.op = "inc_user_uses"
          => \A k \in AllKeys, u \in Users :
                (k # today_key(today) \/ u # ret'.user)
                  => IF Cardinality({j \in DOMAIN _usage_db(disk) \cup {today_key(today)} :
                                       LexLess(k, j)}) < 7
                     THEN Stored(disk', k, u) = Stored(disk, k, u)
                     ELSE Stored(disk', k, u) = 0]_vars

C16_Witness ==
    /\ ret.op = "inc_user_uses" /\ ret.val = 1 /\ ret.day = MaxDay
    /\ Cardinality(ret.keys_before) = 7
    /\ today_key(MaxDay) \notin ret.keys_before
    /\ Stored(disk, today_key(FirstDay), ret.user) = 3
    /\ \E u \in Users \ {ret.user} : Stored(disk, today_key(FirstDay), u) = 2
    /\ \E k \in ret.keys_before : k \notin DOMAIN _usage_db(disk)

C4_Witness ==
    /\ ret.op = "inc_user_uses"
    /\ Cardinality(ret.keys_before \cup {today_key(ret.day)}) = 8
    /\ Cardinality(DOMAIN _usage_db(disk)) = 7
    /\ DOMAIN _usage_db(disk) \subseteq ret.keys_before \cup {today_key(ret.day)}
    /\ \E k \in DOMAIN _usage_db(disk) : k[1] = 2024
    /\ today_key(ret.day)[1] = 2025

----------------------------------------------------------------------------
(* The pick of the day, called directly, while files are deleted and       *)
(* blacklisted around it.                                                   *)

InitDaily ==
    InitProcess /\ files = Names /\ content = SameBytes(files) /\ disk = AllAbsent

PickOrGetToday(images) ==
    \E r \in pick_or_get_today(disk, files, dir_form, today, images) :
        /\ disk' = r.disk
        /\ ret' = [op |-> "pick_or_get_today", images |-> images, day |-> today,
                   err |-> r.err, val |-> r.val, cached |-> r.cached,
                   prev |-> Get(load_daily_db(disk), today_key(today), None)]
        /\ picked' = IF r.err = "" /\ ~r.cached
                     THEN [day |-> today, val |-> r.val, intact |-> TRUE] ELSE picked
        /\ UNCHANGED <<today, dir_form, files, saving, registered, inflight, served>>
        /\ UNCHANGED <<content, ADMIN_CURRENT, cfg_idx, drawn, shown>>
        /\ UNCHANGED <<SYNCED, running, ready>>

\* A media file is removed from the directory.
DeleteFile(n) ==
    /\ n \in files
    /\ files' = files \ {n}
    /\ ret' = [op |-> "delete", name |-> n]
    /\ picked' = IF picked.val # None /\ picked.val[2] = n
                 THEN [picked EXCEPT !.intact = FALSE] ELSE picked
    /\ content' = Restrict(content, files')
    /\ UNCHANGED <<today, dir_form, disk, saving, registered, inflight, served>>
    /\ UNCHANGED <<ADMIN_CURRENT, cfg_idx, drawn, shown>>
    /\ UNCHANGED <<SYNCED, running, ready>>

Bump(m, k) == Put(m, k, Get(m, k, 0) + 1)
Drop(m, k) == IF m[k] > 1 THEN [m EXCEPT ![k] = m[k] - 1] ELSE Restrict(m, DOMAIN m \ {k})

RECURSIVE Total(_)
Total(m) ==
    IF DOMAIN m = {} THEN 0
    ELSE LET k == CHOOSE x \in DOMAIN m : TRUE
         IN m[k] + Total(Restrict(m, DOMAIN m \ {k}))

\* random_cmd up to its first await.  `adv` is 1 when midnight UTC passes
\* between the read of the count and the increment.  What it awaits is a
\* text reply (quota used up, no images) or the send of the image drawn,
\* which is counted in flight under the user and the date key of the count.
RandomCmd(u, adv) ==
    /\ today + adv <= MaxDay
    /\ Total(inflight) < MaxInflight
    /\ LET used == get_user_uses(disk, u, today)
           lp == list_pool_images(disk, files, dir_form)
       IN IF quota_reached(used)
          THEN /\ ret' = [op |-> "random", user |-> u, outcome |-> "quota"]
               /\ UNCHANGED <<today, disk, inflight, drawn>>
          ELSE IF lp.pool = {}
          THEN /\ ret' = [op |-> "random", user |-> u, outcome |-> "no_images"]
               /\ disk' = lp.disk
               /\ UNCHANGED <<today, inflight, drawn>>
          ELSE \E path \in lp.pool :
                 LET meta == get_meta(lp.disk, path)
                     r == inc_user_uses(meta.disk, u, today + adv)
                 IN /\ disk' = r.disk
                    /\ today' = today + adv
                    /\ inflight' = Bump(inflight, <<u, today_key(today + adv)>>)
                    /\ drawn' = Bump(drawn, <<u, today_key(today + adv)>>)
                    /\ ret' = [op |-> "random", user |-> u, outcome |-> "drawn"]
    /\ UNCHANGED <<dir_form, files, saving, picked, registered, served>>
    /\ UNCHANGED <<content, ADMIN_CURRENT, cfg_idx, shown>>
    /\ UNCHANGED <<SYNCED, running, ready>>

\* list_pool_images called on its own.
ListPoolImages ==
    LET r == list_pool_images(disk, files, dir_form)
    IN /\ disk' = r.disk
       /\ ret' = [op |-> "list_pool_images", pool |-> r.pool]
       /\ UNCHANGED <<today, dir_form, files, saving, picked, registered, inflight, served>>
       /\ UNCHANGED <<content, ADMIN_CURRENT, cfg_idx, drawn, shown>>
       /\ UNCHANGED <<SYNCED, running, ready>>

\* daily_cmd up to its first await: the pick among the current pool, then
\* the metadata of the path it got.  What it awaits is the send of that
\* picture, or the reply that carries the error.
DailyCmd ==
    LET lp == list_pool_images(disk, files, dir_form)
    IN \E r \in pick_or_get_today(lp.disk, files, dir_form, today, lp.pool) :
          /\ disk' = IF r.err = "" THEN get_meta(r.disk, r.val).disk ELSE r.disk
          /\ ret' = [op |-> "daily", day |-> today, err |-> r.err, val |-> r.val,
                     cached |-> r.cached,
                     prev |-> Get(load_daily_db(disk), today_key(today), None)]
          /\ picked' = IF r.err = "" /\ ~r.cached
                       THEN [day |-> today, val |-> r.val, intact |-> TRUE] ELSE picked
          /\ UNCHANGED <<today, dir_form, files, saving, registered, inflight, served>>
          /\ UNCHANGED <<content, ADMIN_CURRENT, cfg_idx, drawn, shown>>
          /\ UNCHANGED <<SYNCED, running, ready>>

NextDaily ==
    \/ \E images \in SUBSET ListPaths(dir_form) : PickOrGetToday(images)
    \/ ListPoolImages
    \/ DailyCmd
    \/ \E u \in Users, adv \in {0, 1} : RandomCmd(u, adv)
    \/ \E n \in Names : DeleteFile(n)
    \/ \E p \in ListPaths(dir_form), b \in BOOLEAN : SetMeta(p, None, Some(b), None)
    \/ Tick

SpecDaily == InitDaily /\ [][NextDaily]_vars

IsBlacklisted(d, key) ==
    key \in DOMAIN ImagesOf(d) /\ ImagesOf(d)[key].blacklisted

TodaysEntry(d, day) == Get(load_daily_db(d), today_key(day), None)

\* Today's entry names a file that exists and is not blacklisted.
EntryGood(d, fs, day) ==
    /\ TodaysEntry(d, day) # None
    /\ exists(fs, TodaysEntry(d, day))
    /\ ~IsBlacklisted(d, TodaysEntry(d, day))

\* Today's entry names a file that was deleted or blacklisted since.
EntryStale(d, fs, day) ==
    /\ TodaysEntry(d, day) # None
    /\ ~exists(fs, TodaysEntry(d, day)) \/ IsBlacklisted(d, TodaysEntry(d, day))

\* C1: while the file picked today exists and is not blacklisted, every
\* further pick_or_get_today of the day returns the same path as the call
\* that picked it and leaves the daily-pick document unchanged.
C1_SamePathAllDay ==
    [][(ret'.op = "pick_or_get_today" /\ picked.day = today /\ picked.intact
          /\ EntryGood(disk, files, today))
       => (ret'.err = "" /\ ret'.val = picked.val /\ disk'[DAILY_DB] = disk[DAILY_DB])]_vars

\* C1, as the code has it: the further calls return a path to the same file
\* (the resolved form of the path the first call returned) and leave the
\* daily-pick document unchanged.
C1_SameFileAllDay ==
    [][(ret'.op = "pick_or_get_today" /\ picked.day = today /\ picked.intact
          /\ EntryGood(disk, files, today))
       => (ret'.err = "" /\ ret'.val = resolve(picked.val)
             /\ disk'[DAILY_DB] = disk[DAILY_DB])]_vars

\* The pool daily_cmd passes: the current listing of eligible files (or none
\* given, which pick_or_get_today replaces by that listing).
FreshPool(images) ==
    images = {} \/ images = list_pool_images(disk, files, dir_form).pool

\* What C2 promises of a call: a path other than the stale entry, of a file
\* that exists and is not blacklisted, now recorded under today's key.
Repicked ==
    /\ ret'.err = ""
    /\ resolve(ret'.val) # TodaysEntry(disk, today)
    /\ exists(files', ret'.val)
    /\ ~IsBlacklisted(disk', resolve(ret'.val))
    /\ TodaysEntry(disk', today) = resolve(ret'.val)

\* C2 as stated: when today's cached file was deleted or blacklisted, the
\* next pick_or_get_today of the day returns a different, eligible path and
\* records it under today's key.
C2_StalePickReplaced ==
    [][(ret'.op = "pick_or_get_today" /\ FreshPool(ret'.images)
          /\ EntryStale(disk, files, today))
       => Repicked]_vars

\* C2 amended: it does so when called with the current eligible listing and
\* that listing is not empty; when no file is eligible the call fails with
\* the empty-pool error and the daily-pick document stays as it was.
C2_StalePickReplacedIfAny ==
    [][(ret'.op = "pick_or_get_today" /\ FreshPool(ret'.images)
          /\ EntryStale(disk, files, today))
       => IF list_pool_images(disk, files, dir_form).pool # {}
          THEN Repicked
          ELSE ret'.err = "RuntimeError" /\ disk'[DAILY_DB] = disk[DAILY_DB]]_vars

C2_Witness ==
    /\ ret.op = "pick_or_get_today"
    /\ ret.err = "" /\ ~ret.cached
    /\ ret.prev # None /\ ret.prev # resolve(ret.val)
    /\ ~exists(files, ret.prev)
    /\ TodaysEntry(disk, today) = resolve(ret.val)
    /\ ret.day = today

\* C12: list_pool_images returns exactly the files of the full listing that
\* exist on disk and whose metadata record is not blacklisted, a file with
\* no record counting as not blacklisted: no blacklisted or missing file is
\* included and no eligible file is omitted.
C12_PoolIsExactlyEligible ==
    [][ret'.op = "list_pool_images"
       => /\ \A p \in ret'.pool :
                p \in ListPaths(dir_form) /\ p[2] \in files
                  /\ ~IsBlacklisted(disk, resolve(p))
          /\ \A n \in files :
                ~IsBlacklisted(disk, <<"abs", n>>) => ListPath(dir_form, n) \in ret'.pool]_vars

\* No file of the directory is eligible: each is blacklisted (or there is none).
NoneEligible(d, fs) == \A n \in fs : IsBlacklisted(d, <<"abs", n>>)

\* C13: pick_or_get_today fails with the empty-pool error only when today has
\* no valid cached pick (none cached, or its file missing or blacklisted)
\* and no eligible file exists; whenever it fails the daily-pick document is
\* unchanged; and /random with an empty pool serves nothing and does not
\* increment the user's count.
C13_EmptyPoolFailure ==
    /\ [][(ret'.op \in {"pick_or_get_today", "daily"} /\ ret'.err # "")
          => /\ ret'.err = "RuntimeError"
             /\ ~EntryGood(disk, files, today)
             /\ NoneEligible(disk, files)
             /\ disk'[DAILY_DB] = disk[DAILY_DB]]_vars
    /\ [][(ret'.op = "random" /\ NoneEligible(disk, files))
          => /\ ret'.outcome \in {"no_images", "quota"}
             /\ inflight' = inflight /\ served' = served
             /\ disk'[USAGE_DB] = disk[USAGE_DB]
             /\ \A u \in Users : get_user_uses(disk', u, today')
                                    = get_user_uses(disk, u, today)]_vars

C13_Witness ==
    /\ ret.op = "pick_or_get_today" /\ ret.err = "RuntimeError"
    /\ ret.images = {}
    /\ files = {"b.jpg"}
    /\ TodaysEntry(disk, today) = <<"abs", "a.jpg">>
    /\ IsBlacklisted(disk, <<"abs", "b.jpg">>)
    /\ drawn # EmptyMap

C12_Witness ==
    /\ ret.op = "list_pool_images"
    /\ ret.pool = {ListPath(dir_form, "b.jpg")}
    /\ files = Names
    /\ IsBlacklisted(disk, <<"abs", "a.jpg">>)
    /\ <<"abs", "b.jpg">> \in DOMAIN ImagesOf(disk)

----------------------------------------------------------------------------
(* The bot process.  Handlers run on one event loop: a handler runs alone  *)
(* from one await to the next, and other handlers run while it awaits.     *)

\* IMAGES_DIR is left at its default, the relative path "images".
Init ==
    /\ InitProcess
    /\ dir_form = "rel"
    /\ files \in SUBSET Names
    /\ content = SameBytes(files)
    /\ disk = AllAbsent

\* send_image completes: the user receives the picture.
Deliver(k) ==
    /\ k \in DOMAIN inflight
    /\ inflight' = Drop(inflight, k)
    /\ served' = Bump(served, k)
    /\ ret' = [op |-> "deliver"]
    /\ UNCHANGED <<today, dir_form, files, disk, saving, picked, registered>>
    /\ UNCHANGED <<content, ADMIN_CURRENT, cfg_idx, drawn, shown>>
    /\ UNCHANGED <<SYNCED, running, ready>>

\* send_image raises: the handler reports the error and no picture arrives.
FailSend(k) ==
    /\ k \in DOMAIN inflight
    /\ inflight' = Drop(inflight, k)
    /\ ret' = [op |-> "send_failed"]
    /\ UNCHANGED <<today, dir_form, files, disk, saving, picked, registered, served>>
    /\ UNCHANGED <<content, ADMIN_CURRENT, cfg_idx, drawn, shown>>
    /\ UNCHANGED <<SYNCED, running, ready>>

Next ==
    \/ \E u \in Users, adv \in {0, 1} : RandomCmd(u, adv)
    \/ \E k \in DOMAIN inflight : Deliver(k)
    \/ \E k \in DOMAIN inflight : FailSend(k)
    \/ Tick

Spec == Init /\ [][Next]_vars

\* C5: for every user and date, the images /random has served the user on
\* that date, together with those it is still sending, never exceed
\* MAX_DAILY_RANDOM, however the handlers interleave; and a /random that
\* starts when the user's count for the date is MAX_DAILY_RANDOM or more
\* serves nothing and leaves the usage ledger (every file) unchanged.
C5_QuotaHoldsUnderInterleaving ==
    /\ [](\A u \in Users, day \in 1 .. MaxDay :
            Get(served, <<u, today_key(day)>>, 0)
              + Get(inflight, <<u, today_key(day)>>, 0) <= 3)
    /\ [][(ret'.op = "random" /\ get_user_uses(disk, ret'.user, today) >= 3)
          => (ret'.outcome = "quota" /\ disk' = disk /\ served' = served
                /\ inflight' = inflight)]_vars

C5_Witness ==
    \E u \in Users :
        /\ Get(served, <<u, today_key(today)>>, 0) = 3
        /\ ret = [op |-> "random", user |-> u, outcome |-> "quota"]
        /\ \E k \in DOMAIN inflight : k[1] # u
        /\ today = MaxDay

----------------------------------------------------------------------------
(* A save followed write by write, with the process free to crash between  *)
(* any two of its steps and to start again.  The documents saved are those *)
(* the store operations produce.                                           *)

InitSave ==
    /\ InitProcess /\ dir_form = "rel" /\ files = Names
    /\ content = SameBytes(files) /\ disk = AllAbsent

\* The documents the process may set out to save now, file by file.
UsageWrites ==
    {inc_user_uses(disk, u, today).disk[USAGE_DB].obj :
        u \in {x \in Users : ~quota_reached(get_user_uses(disk, x, today))}}

ImagesWrites ==
    {get_meta(disk, p).disk[IMAGES_DB].obj :
        p \in {q \in ListPaths(dir_form) : resolve(q) \notin DOMAIN ImagesOf(disk)}}
    \cup {set_meta(disk, p, None, Some(TRUE), None).disk[IMAGES_DB].obj :
            p \in {q \in ListPaths(dir_form) : ~IsBlacklisted(disk, resolve(q))}}

DailyWrites ==
    {r.disk[DAILY_DB].obj :
        r \in {x \in pick_or_get_today(disk, files, dir_form, today, ListPaths(dir_form)) :
                 x.err = "" /\ ~x.cached /\ x.disk[IMAGES_DB] = disk[IMAGES_DB]}}

Running == {"open", "partial", "written"}

\* _save_json / save_daily_db opens the .tmp sibling for writing.
BeginSave(path, obj) ==
    /\ saving.pc \notin Running
    /\ disk' = save_open(disk, path)
    /\ saving' = [pc |-> "open", path |-> path, obj |-> obj, prev |-> disk[path]]
    /\ ret' = [op |-> "save", path |-> path]
    /\ UNCHANGED <<today, dir_form, files, picked, registered, inflight, served>>
    /\ UNCHANGED <<content, ADMIN_CURRENT, cfg_idx, drawn, shown>>
    /\ UNCHANGED <<SYNCED, running, ready>>

\* Part of the text has reached the .tmp file.
WritePart ==
    /\ saving.pc = "open"
    /\ disk' = save_write(disk, saving.path, saving.obj, FALSE)
    /\ saving' = [saving EXCEPT !.pc = "partial"]
    /\ UNCHANGED <<today, dir_form, files, ret, picked, registered, inflight, served>>
    /\ UNCHANGED <<content, ADMIN_CURRENT, cfg_idx, drawn, shown>>
    /\ UNCHANGED <<SYNCED, running, ready>>

\* All of the text has reached the .tmp file.
WriteAll ==
    /\ saving.pc \in {"open", "partial"}
    /\ disk' = save_write(disk, saving.path, saving.obj, TRUE)
    /\ saving' = [saving EXCEPT !.pc = "written"]
    /\ UNCHANGED <<today, dir_form, files, ret, picked, registered, inflight, served>>
    /\ UNCHANGED <<content, ADMIN_CURRENT, cfg_idx, drawn, shown>>
    /\ UNCHANGED <<SYNCED, running, ready>>

\* tmp.replace(path).
Replace ==
    /\ saving.pc = "written"
    /\ disk' = save_replace(disk, saving.path)
    /\ saving' = [saving EXCEPT !.pc = "done"]
    /\ UNCHANGED <<today, dir_form, files, ret, picked, registered, inflight, served>>
    /\ UNCHANGED <<content, ADMIN_CURRENT, cfg_idx, drawn, shown>>
    /\ UNCHANGED <<SYNCED, running, ready>>

\* The process dies in the middle of the save; the files stay as they are.
Crash ==
    /\ saving.pc \in Running
    /\ saving' = [saving EXCEPT !.pc = "crashed"]
    /\ UNCHANGED <<today, dir_form, files, disk, ret, picked, registered, inflight, served>>
    /\ UNCHANGED <<content, ADMIN_CURRENT, cfg_idx, drawn, shown>>
    /\ UNCHANGED <<SYNCED, running, ready>>

NextSave ==
    \/ \E obj \in UsageWrites : BeginSave(USAGE_DB, obj)
    \/ \E obj \in ImagesWrites : BeginSave(IMAGES_DB, obj)
    \/ \E obj \in DailyWrites : BeginSave(DAILY_DB, obj)
    \/ WritePart
    \/ WriteAll
    \/ Replace
    \/ Crash

SpecSave == InitSave /\ [][NextSave]_vars

\* C8: at every point of a save of any of the three documents, and after a
\* crash at any such point, the file under the real name is never partial
\* or empty: it is what it was before the save (the complete previous
\* document, or no file when there was none) or the complete new document;
\* and once the save has ended it is the new document.
C8_SaveIsAtomic ==
    /\ \A f \in RealPaths : disk[f].kind \in {"absent", "full"}
    /\ saving.pc # "idle" =>
          /\ disk[saving.path] \in {saving.prev, [kind |-> "full", obj |-> saving.obj]}
          /\ saving.prev.kind \in {"absent", "full"}
    /\ saving.pc = "done" => disk[saving.path] = [kind |-> "full", obj |-> saving.obj]
    /\ saving.pc \in {"open", "partial", "written"} => disk[saving.path] = saving.prev

C8_Witness ==
    /\ saving.pc = "crashed"
    /\ disk[with_suffix_tmp(saving.path)].kind = "partial"
    /\ disk[saving.path] = saving.prev
    /\ saving.prev.kind = "full"
    /\ saving.prev.obj # saving.obj

----------------------------------------------------------------------------
(* The stores over files that are missing or damaged: a JSON file may be   *)
(* absent, empty or cut short when an operation loads it.                   *)

SeedImages ==
    [images |-> [k \in {<<"abs", "a.jpg">>} |->
                    [rarity |-> "Rare", blacklisted |-> TRUE, sha256 |-> "h1"]],
     hashes |-> [h \in {"h1"} |-> <<"abs", "a.jpg">>]]

SeedDaily == [k \in {today_key(FirstDay)} |-> <<"abs", "a.jpg">>]

SeedDoc(path) ==
    CASE path = DAILY_DB -> Full(SeedDaily)
      [] path = IMAGES_DB -> Full(SeedImages)
      [] path = USAGE_DB -> Full(LedgerOf({FirstDay}))

InitLoad ==
    /\ InitProcess /\ dir_form = "rel" /\ files = Names
    /\ content = SameBytes(files)
    /\ \E present \in SUBSET RealPaths :
          disk = [f \in DiskPaths |-> IF f \in present THEN SeedDoc(f) ELSE Absent]

\* The document an operation gets when it loads `path`.
LoadDocument(path) ==
    /\ ret' = [op |-> "load", path |-> path,
               val |-> CASE path = DAILY_DB -> load_daily_db(disk)
                         [] path = IMAGES_DB -> _images_db(disk)
                         [] path = USAGE_DB -> _usage_db(disk)]
    /\ UNCHANGED <<today, dir_form, files, disk, saving, picked, registered, inflight, served>>
    /\ UNCHANGED <<content, ADMIN_CURRENT, cfg_idx, drawn, shown>>
    /\ UNCHANGED <<SYNCED, running, ready>>

\* Something outside the bot empties a JSON file or cuts its text short.
Damage(path, whole) ==
    /\ disk[path].kind = "full"
    /\ disk' = [disk EXCEPT ![path] = IF whole THEN Empty ELSE Partial(disk[path].obj)]
    /\ ret' = [op |-> "damage", path |-> path]
    /\ UNCHANGED <<today, dir_form, files, saving, picked, registered, inflight, served>>
    /\ UNCHANGED <<content, ADMIN_CURRENT, cfg_idx, drawn, shown>>
    /\ UNCHANGED <<SYNCED, running, ready>>

NextLoad ==
    \/ \E path \in RealPaths : LoadDocument(path)
    \/ \E path \in RealPaths, whole \in BOOLEAN : Damage(path, whole)
    \/ \E p \in ListPaths(dir_form) : GetMeta(p)
    \/ \E rarity \in Opt({"Rare"}), sha256 \in Opt({"h2"}) :
          SetMeta(ListPath(dir_form, "b.jpg"), rarity, None, sha256)
    \/ \E u \in Users : GetUserUses(u)
    \/ IncUserUses(CHOOSE u \in Users : TRUE)
    \/ \E images \in {{}, ListPaths(dir_form)} : PickOrGetToday(images)

SpecLoad == InitLoad /\ [][NextLoad]_vars

Parses(d, path) == d[path].kind = "full"

NoImages == [images |-> EmptyMap, hashes |-> EmptyMap]

\* C14: loading a document whose file is absent or does not parse yields the
\* default document, and loading a file that parses yields its content; so
\* get_meta, set_meta, get_user_uses, inc_user_uses and pick_or_get_today
\* complete normally when their document is absent or damaged, with the
\* result and the document they have on an empty document.
C14_AbsentOrCorruptLoadsDefault ==
    /\ [][ret'.op = "load"
          => ret'.val = IF Parses(disk, ret'.path) THEN disk[ret'.path].obj
                        ELSE IF ret'.path = IMAGES_DB THEN NoImages ELSE EmptyMap]_vars
    /\ [][(ret'.op = "get_meta" /\ ~Parses(disk, IMAGES_DB))
          => /\ ret'.rec = [rarity |-> "Common", blacklisted |-> FALSE]
             /\ disk'[IMAGES_DB] =
                   Full([images |-> [k \in {resolve(ret'.p)} |-> ret'.rec],
                         hashes |-> EmptyMap])]_vars
    /\ [][(ret'.op = "set_meta" /\ ~Parses(disk, IMAGES_DB))
          => /\ ret'.err = ""
             /\ ret'.rec.blacklisted = FALSE
             /\ ret'.rec.rarity = IF ret'.rarity = None THEN "Common" ELSE ret'.rarity[1]
             /\ disk'[IMAGES_DB] =
                   Full([images |-> [k \in {resolve(ret'.p)} |-> ret'.rec],
                         hashes |-> IF ret'.sha256 = None THEN EmptyMap
                                    ELSE [h \in {ret'.sha256[1]} |-> resolve(ret'.p)]])]_vars
    /\ [][(ret'.op = "get_user_uses" /\ ~Parses(disk, USAGE_DB))
          => (ret'.val = 0 /\ disk' = disk)]_vars
    /\ [][(ret'.op = "inc_user_uses" /\ ~Parses(disk, USAGE_DB))
          => /\ ret'.val = 1
             /\ disk'[USAGE_DB] =
                   Full([k \in {today_key(today)} |-> [u \in {ret'.user} |-> 1]])]_vars
    /\ [][(ret'.op = "pick_or_get_today" /\ ~Parses(disk, DAILY_DB)
             /\ ~NoneEligible(disk, files))
          => /\ ret'.err = "" /\ ~ret'.cached
             /\ disk'[DAILY_DB] =
                   Full([k \in {today_key(today)} |-> resolve(ret'.val)])]_vars

C14_Witness ==
    /\ ret.op = "get_user_uses" /\ ret.val = 0
    /\ disk[USAGE_DB].kind = "partial"
    /\ Get(disk[USAGE_DB].obj[today_key(today)], ret.user, 0) = 3
    /\ disk[IMAGES_DB] =
          Full([images |-> [k \in {<<"abs", "b.jpg">>} |-> DefaultRec], hashes |-> EmptyMap])
    /\ disk[DAILY_DB].kind = "absent"

----------------------------------------------------------------------------
(* The configuration commands.  Each handler runs alone from one await to  *)
(* the next; its awaits are the deferral and the attachment download       *)
(* before it touches anything, and the reply after it has finished, so all *)
(* it does to the files, the metadata and ADMIN_CURRENT is one step.       *)

ADMIN_USER_IDS == {201, 202}
CONFIG_GUILD_ID == 900

\* Who may invoke a command, and from where.
Callers == {201, 202, 301}
Guilds == {900, 901}

\* How many times cfg_next advances its position.
MaxIdx == 3

\* Mutant: everyone is let through.
_is_admin_anyone(user, guild) == TRUE

_is_admin(user, guild) ==
    IF ADMIN_USER_IDS # {} /\ user \notin ADMIN_USER_IDS THEN FALSE
    ELSE IF CONFIG_GUILD_ID # 0 /\ guild # CONFIG_GUILD_ID THEN FALSE
    ELSE TRUE

\* The file names in sorted order, as sorted() orders the paths.
NameOrder == <<"a.jpg", "a_1.jpg", "b.jpg">>

\* list_all_images as the list it is: the files present, sorted.
list_all_images_sorted(fs, form) ==
    LET names == SelectSeq(NameOrder, LAMBDA n : n \in fs)
    IN [i \in DOMAIN names |-> ListPath(form, names[i])]

\* str.lower on the names and queries used.
lower(t) == IF t = "A.JPG" THEN "a.jpg" ELSE t

\* q in n, for a lower-case query q and a lower-case file name n.
contains(n, q) == q = n \/ q = "jpg" \/ (q = "a" /\ n \in {"a.jpg", "a_1.jpg"})

\* cfg_select's match: the first exact name, else the first name containing
\* the query, else none.
select_match(imgs, name) ==
    LET exact == SelectSeq(imgs, LAMBDA p : lower(p[2]) = lower(name))
        part == SelectSeq(imgs, LAMBDA p : contains(lower(p[2]), lower(name)))
    IN IF exact # <<>> THEN Some(exact[1])
       ELSE IF part # <<>> THEN Some(part[1]) ELSE None

\* The extension test of cfg_upload on the lower-cased file name.
allowed_ext(filename) == filename # "notes.txt"

\* re.sub(r"[^A-Za-z0-9._-]", "_", filename) on the file names used.
sanitize(filename) == IF filename = "a 1.jpg" THEN "a_1.jpg" ELSE filename

\* f"{stem}_{i}{ext}" on the file names used.
numbered(safe, i) ==
    CASE safe = "a.jpg" /\ i = 1 -> "a_1.jpg"
      [] safe = "a.jpg" /\ i = 2 -> "a_2.jpg"
      [] safe = "b.jpg" /\ i = 1 -> "b_1.jpg"
      [] safe = "a_1.jpg" /\ i = 1 -> "a_1_1.jpg"
      [] OTHER -> "more.jpg"

\* The loop that looks for a free name: safe, then stem_1, stem_2, ...
RECURSIVE unique_dest(_, _, _)
unique_dest(fs, safe, i) ==
    LET dest == IF i = 0 THEN safe ELSE numbered(safe, i)
    IN IF dest \in fs /\ i < 2 THEN unique_dest(fs, safe, i + 1) ELSE dest

\* The duplicate check: the hash index has a path for the hash and a file
\* exists at that path.
is_duplicate(d, fs, sha) ==
    find_by_hash(d, sha) # None /\ exists(fs, find_by_hash(d, sha))

\* The loop of cfg_rehash from item i on: [disk, reg].
RECURSIVE rehash_from(_, _, _, _, _)
rehash_from(d, reg, cont, items, i) ==
    IF i > Len(items) THEN [disk |-> d, reg |-> reg]
    ELSE LET p == items[i]
             g == get_meta(d, p)
             sha == cont[p[2]]
         IN IF "sha256" \in DOMAIN g.rec
            THEN rehash_from(g.disk, reg, cont, items, i + 1)
            ELSE rehash_from(set_meta(g.disk, p, None, None, Some(sha)).disk,
                             Put(reg, sha, resolve(p)), cont, items, i + 1)

\* What a configuration step leaves alone whatever it does.
ConfigFrame ==
    UNCHANGED <<today, dir_form, saving, picked, inflight, served, drawn,
                SYNCED, running, ready>>

\* The reply "Not allowed." and nothing else.
Refused(op, user, guild) ==
    /\ ~_is_admin(user, guild)
    /\ ret' = [op |-> op, user |-> user, guild |-> guild, outcome |-> "not_allowed"]
    /\ UNCHANGED <<files, content, disk, registered, ADMIN_CURRENT, cfg_idx, shown>>
    /\ ConfigFrame

CfgNext(user, guild) ==
    \/ Refused("cfg_next", user, guild)
    \/ /\ _is_admin(user, guild)
       /\ LET imgs == list_all_images_sorted(files, dir_form)
          IN IF imgs = <<>>
             THEN /\ ret' = [op |-> "cfg_next", user |-> user, guild |-> guild,
                             outcome |-> "no_images"]
                  /\ UNCHANGED <<disk, ADMIN_CURRENT, cfg_idx, shown>>
             ELSE LET p == imgs[(cfg_idx % Len(imgs)) + 1]
                  IN /\ cfg_idx < MaxIdx
                     /\ cfg_idx' = cfg_idx + 1
                     /\ ADMIN_CURRENT' = Put(ADMIN_CURRENT, user, p)
                     /\ disk' = get_meta(disk, p).disk
                     /\ shown' = Put(shown, user, [p |-> p, imgs |-> imgs, by |-> "next"])
                     /\ ret' = [op |-> "cfg_next", user |-> user, guild |-> guild,
                                outcome |-> "shown", p |-> p]
       /\ UNCHANGED <<files, content, registered>>
       /\ ConfigFrame

CfgSelect(user, guild, name) ==
    \/ Refused("cfg_select", user, guild)
    \/ /\ _is_admin(user, guild)
       /\ LET imgs == list_all_images_sorted(files, dir_form)
              cand == select_match(imgs, name)
          IN IF cand = None
             THEN /\ ret' = [op |-> "cfg_select", user |-> user, guild |-> guild,
                             outcome |-> "no_match"]
                  /\ UNCHANGED <<disk, ADMIN_CURRENT, shown>>
             ELSE /\ ADMIN_CURRENT' = Put(ADMIN_CURRENT, user, cand[1])
                  /\ disk' = get_meta(disk, cand[1]).disk
                  /\ shown' = Put(shown, user, [p |-> cand[1], imgs |-> imgs, by |-> "select"])
                  /\ ret' = [op |-> "cfg_select", user |-> user, guild |-> guild,
                             outcome |-> "shown", p |-> cand[1]]
       /\ UNCHANGED <<files, content, registered, cfg_idx>>
       /\ ConfigFrame

CfgSetRarity(user, guild, rarity) ==
    \/ Refused("cfg_set_rarity", user, guild)
    \/ /\ _is_admin(user, guild)
       /\ IF user \notin DOMAIN ADMIN_CURRENT
          THEN /\ ret' = [op |-> "cfg_set_rarity", user |-> user, guild |-> guild,
                          outcome |-> "nothing_selected"]
               /\ UNCHANGED disk
          ELSE LET r == set_meta(disk, ADMIN_CURRENT[user], Some(rarity), None, None)
               IN /\ disk' = r.disk
                  /\ ret' = [op |-> "cfg_set_rarity", user |-> user, guild |-> guild,
                             outcome |-> IF r.err = "" THEN "set" ELSE r.err]
       /\ UNCHANGED <<files, content, registered, ADMIN_CURRENT, cfg_idx, shown>>
       /\ ConfigFrame

CfgToggleBlacklist(user, guild) ==
    \/ Refused("cfg_toggle_blacklist", user, guild)
    \/ /\ _is_admin(user, guild)
       /\ IF user \notin DOMAIN ADMIN_CURRENT
          THEN /\ ret' = [op |-> "cfg_toggle_blacklist", user |-> user, guild |-> guild,
                          outcome |-> "nothing_selected"]
               /\ UNCHANGED disk
          ELSE LET p == ADMIN_CURRENT[user]
                   g == get_meta(disk, p)
                   new == ~g.rec.blacklisted
                   r == set_meta(g.disk, p, None, Some(new), None)
               IN /\ disk' = r.disk
                  /\ ret' = [op |-> "cfg_toggle_blacklist", user |-> user, guild |-> guild,
                             outcome |-> "toggled", p |-> p, new |-> new]
       /\ UNCHANGED <<files, content, registered, ADMIN_CURRENT, cfg_idx, shown>>
       /\ ConfigFrame

\* The names a media file may get in the directory.
UploadNames == {"a.jpg", "a_1.jpg", "b.jpg"}

CfgUpload(user, guild, filename, small, sha, rarity) ==
    \/ Refused("cfg_upload", user, guild)
    \/ /\ _is_admin(user, guild)
       /\ LET dest == ListPath(dir_form, unique_dest(files, sanitize(filename), 0))
              r == set_meta(disk, dest, rarity, None, Some(sha))
              reply(outcome) == [op |-> "cfg_upload", user |-> user, guild |-> guild,
                                 sha |-> sha, outcome |-> outcome]
          IN IF ~allowed_ext(lower(filename))
             THEN /\ ret' = reply("unsupported")
                  /\ UNCHANGED <<files, content, disk, registered>>
             ELSE IF ~small
             THEN /\ ret' = reply("too_large")
                  /\ UNCHANGED <<files, content, disk, registered>>
             ELSE IF is_duplicate(disk, files, sha)
             THEN /\ ret' = reply("duplicate")
                  /\ UNCHANGED <<files, content, disk, registered>>
             ELSE /\ dest[2] \in UploadNames
                  /\ files' = files \cup {dest[2]}
                  /\ content' = Put(content, dest[2], sha)
                  /\ disk' = r.disk
                  /\ registered' = IF r.err = "" THEN Put(registered, sha, resolve(dest))
                                   ELSE registered
                  /\ ret' = [reply(IF r.err = "" THEN "uploaded" ELSE r.err)
                               EXCEPT !.op = "cfg_upload"]
       /\ UNCHANGED <<ADMIN_CURRENT, cfg_idx, shown>>
       /\ ConfigFrame

CfgRehash(user, guild) ==
    \/ Refused("cfg_rehash", user, guild)
    \/ /\ _is_admin(user, guild)
       /\ LET items == list_all_images_sorted(files, dir_form)
              r == rehash_from(disk, registered, content, items, 1)
          IN IF items = <<>>
             THEN /\ ret' = [op |-> "cfg_rehash", user |-> user, guild |-> guild,
                             outcome |-> "no_media"]
                  /\ UNCHANGED <<disk, registered>>
             ELSE /\ disk' = r.disk
                  /\ registered' = r.reg
                  /\ ret' = [op |-> "cfg_rehash", user |-> user, guild |-> guild,
                             outcome |-> "rehashed"]
       /\ UNCHANGED <<files, content, ADMIN_CURRENT, cfg_idx, shown>>
       /\ ConfigFrame

\* The callers of the configuration commands: the two admins in the
\* configuration guild, a user who is no admin, and an admin in another guild.
Invokers == {<<201, 900>>, <<202, 900>>, <<301, 900>>, <<201, 901>>}

\* The media directory as the bot finds it, its files put there by hand; no
\* JSON file yet.
InitConfig ==
    /\ InitProcess
    /\ dir_form = "rel"
    /\ files = Names
    /\ content = SameBytes(files)
    /\ disk = AllAbsent

\* The configuration commands over a directory that keeps its files: what is
\* uploaded is refused for its type or its size.
NextConfig ==
    \/ \E c \in Invokers : CfgNext(c[1], c[2])
    \/ \E c \in Invokers, name \in {"A.JPG", "jpg", "zzz"} : CfgSelect(c[1], c[2], name)
    \/ \E c \in Invokers : CfgSetRarity(c[1], c[2], "Rare")
    \/ \E c \in Invokers : CfgToggleBlacklist(c[1], c[2])
    \/ \E c \in Invokers, filename \in {"a.jpg", "notes.txt"} :
          CfgUpload(c[1], c[2], filename, filename = "notes.txt", "h2", None)
    \/ \E c \in Invokers : CfgRehash(c[1], c[2])

SpecConfig == InitConfig /\ [][NextConfig]_vars

\* The media directory with files put there by hand, two of which may hold
\* the same bytes.
InitUpload ==
    /\ InitProcess
    /\ dir_form = "rel"
    /\ files = Names
    /\ content \in [Names -> Hashes]
    /\ disk = AllAbsent

\* Uploads, rehashes and deletions of media files.
NextUpload ==
    \/ \E c \in {<<201, 900>>, <<301, 900>>},
          filename \in {"a.jpg", "a 1.jpg", "notes.txt"}, small \in BOOLEAN,
          sha \in Hashes, rarity \in Opt({"Rare"}) :
            CfgUpload(c[1], c[2], filename, small, sha, rarity)
    \/ \E c \in {<<201, 900>>, <<301, 900>>} : CfgRehash(c[1], c[2])
    \/ \E n \in UploadNames : DeleteFile(n)

SpecUpload == InitUpload /\ [][NextUpload]_vars

\* Some file that exists has `sha` as the sha256 of its record.
RecordedForExisting(d, fs, sha) ==
    \E n \in fs : <<"abs", n>> \in DOMAIN ImagesOf(d)
                    /\ ShaOf(ImagesOf(d)[<<"abs", n>>]) = Some(sha)

\* A cfg_upload that got as far as its duplicate check.
UploadChecked(r) ==
    r.op = "cfg_upload" /\ r.outcome \notin {"not_allowed", "unsupported", "too_large"}

\* An upload whose hash is recorded for a file that exists is rejected,
\* saving no file and writing no metadata.
DuplicateRejected ==
    [][(UploadChecked(ret') /\ RecordedForExisting(disk, files, ret'.sha))
       => (ret'.outcome = "duplicate" /\ files' = files /\ content' = content
             /\ disk' = disk)]_vars

\* A duplicate is reported only when such a file exists.
DuplicateOnlyIfRecorded ==
    [][(UploadChecked(ret') /\ ret'.outcome = "duplicate")
       => RecordedForExisting(disk, files, ret'.sha)]_vars

\* C17: after any sequence of uploads, rehashes and file deletions, a
\* cfg_upload whose content hash equals the sha256 recorded for some file that
\* still exists is rejected as a duplicate, saving no file and writing no
\* metadata; and cfg_upload reports a duplicate only when such a file exists.
C17_DuplicatesDetected == DuplicateRejected /\ DuplicateOnlyIfRecorded

\* C18: cfg_next is a round-robin per admin: an admin's successive cfg_next
\* calls present the images in listing order, one further per call and
\* wrapping around, whatever cfg_next calls other admins made in between.
C18_PerAdminRoundRobin ==
    [][(ret'.op = "cfg_next" /\ ret'.outcome = "shown"
          /\ ret'.user \in DOMAIN shown /\ shown[ret'.user].by = "next"
          /\ shown[ret'.user].imgs = list_all_images_sorted(files, dir_form))
       => LET imgs == shown[ret'.user].imgs
          IN \E i \in DOMAIN imgs :
                imgs[i] = shown[ret'.user].p /\ ret'.p = imgs[(i % Len(imgs)) + 1]]_vars

CfgOps == {"cfg_next", "cfg_select", "cfg_set_rarity", "cfg_toggle_blacklist",
           "cfg_upload", "cfg_rehash"}

\* The caller is not in the admin list or is outside the configuration guild.
NotAdmin(r) == r.user \notin {201, 202} \/ r.guild # 900

\* C19: a configuration command invoked by a user for whom _is_admin is false
\* changes neither the metadata document, nor the image files, nor any
\* admin's current selection; and a set_rarity or a toggle by an admin
\* changes only the record of the image that same admin selected last.
C19_AdminOnly ==
    /\ [][(ret'.op \in CfgOps /\ NotAdmin(ret'))
          => /\ ret'.outcome = "not_allowed"
             /\ disk' = disk
             /\ files' = files /\ content' = content
             /\ ADMIN_CURRENT' = ADMIN_CURRENT]_vars
    /\ [][(ret'.op \in {"cfg_set_rarity", "cfg_toggle_blacklist"} /\ ~NotAdmin(ret'))
          => IF ret'.user \notin DOMAIN shown
             THEN disk' = disk
             ELSE LET key == resolve(shown[ret'.user].p)
                      old == Get(ImagesOf(disk), key, DefaultRec)
                  IN /\ DOMAIN ImagesOf(disk') = DOMAIN ImagesOf(disk) \cup {key}
                     /\ \A k \in DOMAIN ImagesOf(disk) \ {key} :
                           ImagesOf(disk')[k] = ImagesOf(disk)[k]
                     /\ HashesOf(disk') = HashesOf(disk)
                     /\ ImagesOf(disk')[key] =
                          IF ret'.op = "cfg_set_rarity"
                          THEN [old EXCEPT !.rarity = "Rare"]
                          ELSE [old EXCEPT !.blacklisted = ~old.blacklisted]
                     /\ files' = files /\ content' = content]_vars

C19_Witness ==
    /\ ret.op = "cfg_toggle_blacklist" /\ ret.user = 202 /\ ret.outcome = "toggled"
    /\ {201, 202} \subseteq DOMAIN shown
    /\ shown[201].p[2] = "a.jpg" /\ shown[202].p[2] = "b.jpg"
    /\ ImagesOf(disk)[<<"abs", "a.jpg">>] = [rarity |-> "Rare", blacklisted |-> FALSE]
    /\ ImagesOf(disk)[<<"abs", "b.jpg">>].blacklisted
    /\ ADMIN_CURRENT = [u \in {201, 202} |-> shown[u].p]

----------------------------------------------------------------------------
(* /daily while an admin uploads and blacklists media and files are        *)
(* deleted, over two dates.                                                 *)

InitServe ==
    /\ InitProcess
    /\ dir_form = "rel"
    /\ files = Names
    /\ content = SameBytes(files)
    /\ disk = AllAbsent

NextServe ==
    \/ DailyCmd
    \/ \E c \in {<<201, 900>>, <<301, 900>>}, name \in {"jpg", "b.jpg"} :
          CfgSelect(c[1], c[2], name)
    \/ \E c \in {<<201, 900>>, <<301, 900>>} : CfgToggleBlacklist(c[1], c[2])
    \/ \E c \in {<<201, 900>>, <<301, 900>>} :
          CfgUpload(c[1], c[2], "a.jpg", TRUE, "h2", None)
    \/ \E n \in UploadNames : DeleteFile(n)
    \/ Tick

SpecServe == InitServe /\ [][NextServe]_vars

\* C20: every path /daily serves exists on disk and is not blacklisted at the
\* moment pick_or_get_today returns it, after any sequence of uploads,
\* deletions, blacklist toggles and earlier /daily calls; and
\* pick_or_get_today writes today's key of the daily-pick document only,
\* leaving the entries of all other dates as they were.
C20_DailyServesEligible ==
    /\ [][(ret'.op = "daily" /\ ret'.err = "")
          => /\ ret'.val[2] \in files'
             /\ ~IsBlacklisted(disk', <<"abs", ret'.val[2]>>)]_vars
    /\ [][ret'.op = "daily"
          => \A day \in (1 .. MaxDay) \ {today} :
                TodaysEntry(disk', day) = TodaysEntry(disk, day)]_vars

C20_Witness ==
    /\ ret.op = "daily" /\ ret.err = "" /\ ~ret.cached
    /\ today = MaxDay
    /\ ret.prev # None
    /\ ret.val[2] = "a_1.jpg"
    /\ TodaysEntry(disk, FirstDay) = <<"abs", "a.jpg">>
    /\ "a.jpg" \notin files
    /\ IsBlacklisted(disk, <<"abs", "b.jpg">>)
    /\ "b.jpg" \in files

----------------------------------------------------------------------------
(* Handlers that load, modify and save the same documents, interleaved at  *)
(* their awaits: /random draws whose sends are pending while other draws,  *)
(* blacklist toggles and uploads run.                                       *)

InitCycles ==
    /\ InitProcess
    /\ dir_form = "rel"
    /\ files = Names
    /\ content = SameBytes(files)
    /\ disk = AllAbsent

NextCycles ==
    \/ \E u \in Users, adv \in {0, 1} : RandomCmd(u, adv)
    \/ \E k \in DOMAIN inflight : Deliver(k)
    \/ \E c \in {<<201, 900>>, <<301, 900>>} : CfgSelect(c[1], c[2], "b.jpg")
    \/ \E c \in {<<201, 900>>, <<301, 900>>} : CfgToggleBlacklist(c[1], c[2])
    \/ \E c \in {<<201, 900>>, <<301, 900>>} :
          CfgUpload(c[1], c[2], "a.jpg", TRUE, "h2", None)

SpecCycles == InitCycles /\ [][NextCycles]_vars

\* C15: no update to a JSON document is lost, however the handlers
\* interleave at their awaits.  After n /random draws by a user on a date
\* the count stored for that user and date is n; a toggle flips the flag the
\* document held just before it and an upload adds its record and its hash
\* to the document as it was just before it, every other record and hash
\* staying; a draw keeps every record of the metadata document.
C15_NoLostUpdate ==
    /\ [](\A u \in Users, day \in 1 .. MaxDay :
            Stored(disk, today_key(day), u) = Get(drawn, <<u, today_key(day)>>, 0))
    /\ [][(ret'.op = "cfg_toggle_blacklist" /\ ret'.outcome = "toggled")
          => LET key == resolve(ret'.p)
                 old == Get(ImagesOf(disk), key, DefaultRec)
             IN /\ ImagesOf(disk') =
                     Put(ImagesOf(disk), key, [old EXCEPT !.blacklisted = ~old.blacklisted])
                /\ HashesOf(disk') = HashesOf(disk)
                /\ disk'[USAGE_DB] = disk[USAGE_DB]]_vars
    /\ [][(ret'.op = "cfg_upload" /\ ret'.outcome = "uploaded")
          => \E n \in files' \ files :
                /\ ImagesOf(disk') =
                     Put(ImagesOf(disk), <<"abs", n>>,
                         Put(Get(ImagesOf(disk), <<"abs", n>>, DefaultRec),
                             "sha256", ret'.sha))
                /\ HashesOf(disk') = Put(HashesOf(disk), ret'.sha, <<"abs", n>>)
                /\ disk'[USAGE_DB] = disk[USAGE_DB]]_vars
    /\ [][(ret'.op = "random" /\ ret'.outcome = "drawn")
          => /\ \A k \in DOMAIN ImagesOf(disk) : k \in DOMAIN ImagesOf(disk')
                                                  /\ ImagesOf(disk')[k] = ImagesOf(disk)[k]
             /\ HashesOf(disk') = HashesOf(disk)]_vars

C15_Witness ==
    /\ \E u \in Users :
          /\ Stored(disk, today_key(today), u) = 3
          /\ Get(inflight, <<u, today_key(today)>>, 0) = 2
    /\ IsBlacklisted(disk, <<"abs", "b.jpg">>)
    /\ HashesOf(disk) = [h \in {"h2"} |-> <<"abs", "a_1.jpg">>]
    /\ ret.op = "cfg_toggle_blacklist" /\ ret.outcome = "toggled"

----------------------------------------------------------------------------
(* The hash index against the records (SpecUpload).                         *)

\* C21: in every reachable state, for every entry hash -> path of the hash
\* index the record of that path exists and its sha256 field equals that
\* hash, also when the path of a deleted file is reused by a later upload
\* with other content.
C21_HashIndexMatchesRecords ==
    \A h \in DOMAIN HashesOf(disk) :
        /\ HashesOf(disk)[h] \in DOMAIN ImagesOf(disk)
        /\ ShaOf(ImagesOf(disk)[HashesOf(disk)[h]]) = Some(h)

----------------------------------------------------------------------------
(* on_ready.  The gateway fires it at every (re)connection, each time as a *)
(* task of its own; an invocation runs alone from one await to the next,   *)
(* and others may arrive and run while it awaits.                           *)

\* How many times the gateway fires on_ready.
MaxReady == 4

\* Loop.start(): a loop that is running refuses to be started again.
start(loops, name) ==
    IF name \in loops THEN [err |-> "RuntimeError", running |-> loops]
    ELSE [err |-> "", running |-> loops \cup {name}]

\* on_ready from line 219 on, up to its next await or its end.
from_start(loops, synced) ==
    LET r == start(loops, "rotate_presence")
        purge == IF "purge_exports" \notin r.running
                 THEN start(r.running, "purge_exports").running ELSE r.running
    IN IF r.err # "" THEN [pc |-> "raised", running |-> loops]
       ELSE [pc |-> IF ~synced THEN "sync" ELSE "done", running |-> purge]

\* on_ready is fired: it leaves the guilds that are not allowed, then either
\* awaits the first change_presence (rotate_presence is not running) or goes
\* straight on to line 219.
OnReady ==
    /\ Len(ready) < MaxReady
    /\ LET r == from_start(running, SYNCED)
       IN IF "rotate_presence" \notin running
          THEN ready' = Append(ready, "presence") /\ running' = running
          ELSE ready' = Append(ready, r.pc) /\ running' = r.running
    /\ ret' = [op |-> "on_ready", id |-> Len(ready) + 1]
    /\ UNCHANGED <<today, dir_form, files, disk, saving, picked, registered, inflight, served>>
    /\ UNCHANGED <<content, ADMIN_CURRENT, cfg_idx, drawn, shown, SYNCED>>

\* change_presence returned: the loops are started and, unless SYNCED, the
\* sync is awaited.
PresenceSet(i) ==
    /\ ready[i] = "presence"
    /\ LET r == from_start(running, SYNCED)
       IN ready' = [ready EXCEPT ![i] = r.pc] /\ running' = r.running
    /\ ret' = [op |-> "presence_set", id |-> i]
    /\ UNCHANGED <<today, dir_form, files, disk, saving, picked, registered, inflight, served>>
    /\ UNCHANGED <<content, ADMIN_CURRENT, cfg_idx, drawn, shown, SYNCED>>

\* bot.tree.sync returned for every guild: SYNCED is set, on_ready ends.
CommandsSynced(i) ==
    /\ ready[i] = "sync"
    /\ SYNCED' = TRUE
    /\ ready' = [ready EXCEPT ![i] = "synced"]
    /\ ret' = [op |-> "commands_synced", id |-> i]
    /\ UNCHANGED <<today, dir_form, files, disk, saving, picked, registered, inflight, served>>
    /\ UNCHANGED <<content, ADMIN_CURRENT, cfg_idx, drawn, shown, running>>

InitReady ==
    /\ InitProcess
    /\ dir_form = "rel"
    /\ files = Names
    /\ content = SameBytes(files)
    /\ disk = AllAbsent

NextReady ==
    \/ OnReady
    \/ \E i \in DOMAIN ready : PresenceSet(i)
    \/ \E i \in DOMAIN ready : CommandsSynced(i)

SpecReady == InitReady /\ [][NextReady]_vars

\* C22: on_ready may fire any number of times: every invocation runs to its
\* end without raising, none starts rotate_presence or purge_exports while
\* that loop is running, and the commands are synced in the first invocation
\* only, SYNCED staying true afterwards.
C22_OnReadyReentrant ==
    /\ [](\A i \in DOMAIN ready : ready[i] # "raised")
    /\ [](\A i \in DOMAIN ready : ready[i] \in {"sync", "synced"} => i = 1)
    /\ [][SYNCED => SYNCED']_vars

====
